---- MODULE Spec2Model ----
(***************************************************************************)
(* Page storage layer of shepherd: fixed-size page I/O (page.rs), the      *)
(* bit-serial CRC-8 (integrity.rs) and the dual-copy meta page (meta.rs).  *)
(* Pages are sequences of bytes (0..255); the page size is scaled down.    *)
(***************************************************************************)
EXTENDS Integers, Sequences, FiniteSets, TLC

\* Page size in bytes: page::SIZE is 8192 in the source, scaled down here.
SIZE == 3
\* Page numbers passed to the operations range over 0..MaxPageNo.
MaxPageNo == 2
\* Number of operations a behaviour starts.
MaxOps == 2
\* Number of calls in the life of one record (SpecSess).
MaxSessOps == 3
\* Number of direct page operations a behaviour of SpecPage contains.
MaxPageOps == 2
\* Number of slot-layer calls a behaviour of SpecSlot contains.
MaxSlotOps == 2
\* Number of write_blocks calls among them.
MaxSlotWrites == 1
\* Number of crc calls a behaviour of SpecCrc contains.
MaxCrcCalls == 1
\* Length of the byte sequences crc is given, beside the test vectors.
MaxCrcLen == 2
\* Width in bits of the page numbers and byte offsets of SpecU64: u64 in the
\* source, scaled down here.
U64_BITS == 4
\* Number of page::read calls a behaviour of SpecU64 contains.
MaxU64Ops == 1
\* Number of crashes and medium corruptions a behaviour contains.
MaxDamage == 1
\* Bytes used to fill buffers and initial pages (the tests use constant fills).
FillBytes == {0, 1, 27}

CRC_POLY == 176

Ok == "Ok"
ReadDistant == "tried to read distant page"
WriteDistant == "tried to write distant page"
SelfCopy == "tried to copy page to itself"
IoError == "io error"
Crashed == "crash"
Panicked == "panic"

(***************************************************************************)
(* integrity.rs                                                            *)
(***************************************************************************)
RECURSIVE xor(_, _)
xor(a, b) ==
    IF a = 0 THEN b
    ELSE IF b = 0 THEN a
    ELSE (((a % 2) + (b % 2)) % 2) + 2 * xor(a \div 2, b \div 2)

RECURSIVE Pow2(_)
Pow2(k) == IF k = 0 THEN 1 ELSE 2 * Pow2(k - 1)

\* impl BitOr<u8> for Bit
BitOr(bit, rhs) == IF bit = 1 THEN rhs + (1 - (rhs % 2)) ELSE rhs

\* Register::new seeded with all ones for an empty input.
RegisterNew_SeedOnes(n) ==
    [current |-> IF Len(n) = 0 THEN 255 ELSE n[1], bit |-> 7, idx |-> 1]

\* Register::new: current is the first byte, the cursor is (bit 7, byte 1).
RegisterNew(n) ==
    [current |-> IF Len(n) = 0 THEN 0 ELSE n[1], bit |-> 7, idx |-> 1]

\* Register::advance
advance(r) ==
    IF r.bit = 0 THEN [r EXCEPT !.idx = r.idx + 1, !.bit = 7]
    ELSE [r EXCEPT !.bit = r.bit - 1]

\* Register::pop taking the bits of a byte lowest first.
pop_LsbFirst(r, n) ==
    IF r.idx < Len(n) THEN (n[r.idx + 1] \div Pow2(7 - r.bit)) % 2 ELSE 0

\* Register::pop: the bit under the cursor (0 past the end), before advancing.
pop(r, n) ==
    IF r.idx < Len(n) THEN (n[r.idx + 1] \div Pow2(r.bit)) % 2 ELSE 0

\* Register::shift, when the cursor is still within n.len(): the register
\* after the shift; the bit shifted out is r.current >> 7.
shift(r, n) ==
    [advance(r) EXCEPT !.current = BitOr(pop(r, n), (r.current * 2) % 256)]

\* The loop of crc with the xor applied before the shift.
crcStep_XorFirst(poly, r, n) ==
    IF r.idx > Len(n) THEN r
    ELSE LET bit == r.current \div 128
             x == IF bit = 1 THEN [r EXCEPT !.current = xor(r.current, poly)]
                  ELSE r
         IN  shift(x, n)

\* One turn of the loop of crc: nothing once shift returns None, else the
\* shift and, when the bit shifted out is set, the xor with poly.
crcStep(poly, r, n) ==
    IF r.idx > Len(n) THEN r
    ELSE LET bit == r.current \div 128
             s == shift(r, n)
         IN  IF bit = 1 THEN [s EXCEPT !.current = xor(s.current, poly)]
             ELSE s

\* The loop of crc, taken eight turns (one byte of n) at a time.
RECURSIVE crcLoop(_, _, _)
crcLoop(poly, r, n) ==
    IF r.idx > Len(n) THEN r.current
    ELSE LET r1 == crcStep(poly, r, n)
             r2 == crcStep(poly, r1, n)
             r3 == crcStep(poly, r2, n)
             r4 == crcStep(poly, r3, n)
             r5 == crcStep(poly, r4, n)
             r6 == crcStep(poly, r5, n)
             r7 == crcStep(poly, r6, n)
             r8 == crcStep(poly, r7, n)
         IN  crcLoop(poly, r8, n)

crc(poly, n) == crcLoop(poly, RegisterNew(n), n)

(***************************************************************************)
(* Pages and the file                                                      *)
(***************************************************************************)
Fill(b, len) == [i \in 1..len |-> b]
ZeroPayload == Fill(0, SIZE - 1)
Payloads == {Fill(b, SIZE - 1) : b \in FillBytes}
Bufs == {Fill(b, SIZE) : b \in FillBytes}
PageNos == 0..MaxPageNo

Payload(page) == SubSeq(page, 1, SIZE - 1)
CrcValid(page) == page[SIZE] = crc(CRC_POLY, Payload(page))

\* A write torn after k bytes: the first k bytes are new, the rest old.
Torn(old, new, k) == [i \in 1..SIZE |-> IF i <= k THEN new[i] ELSE old[i]]

ReadFaults == {"none", "meta", "io"}
NoFault == [kind |-> "none", k |-> 0]
WriteFaults ==
    {NoFault, [kind |-> "meta", k |-> 0]}
        \cup {[kind |-> "torn", k |-> k] : k \in 0..(SIZE - 1)}

\* page::read with its bound one page too strict.
page_read_OffByOne(f, page, fault) ==
    IF fault = "meta" THEN [err |-> IoError, buf |-> Fill(0, SIZE)]
    ELSE IF page + 1 >= Len(f) THEN [err |-> ReadDistant, buf |-> Fill(0, SIZE)]
    ELSE IF fault = "io" THEN [err |-> IoError, buf |-> Fill(0, SIZE)]
    ELSE [err |-> Ok, buf |-> f[page + 1]]

\* page::read without its seek: the bytes of page 0 are returned.
page_read_NoSeek(f, page, fault) ==
    IF fault = "meta" THEN [err |-> IoError, buf |-> Fill(0, SIZE)]
    ELSE IF page + 1 > Len(f) THEN [err |-> ReadDistant, buf |-> Fill(0, SIZE)]
    ELSE IF fault = "io" THEN [err |-> IoError, buf |-> Fill(0, SIZE)]
    ELSE [err |-> Ok, buf |-> f[1]]

\* page::read. f is the sequence of whole pages of the file (max = Len(f)).
page_read(f, page, fault) ==
    IF fault = "meta" THEN [err |-> IoError, buf |-> Fill(0, SIZE)]
    ELSE IF page + 1 > Len(f) THEN [err |-> ReadDistant, buf |-> Fill(0, SIZE)]
    ELSE IF fault = "io" THEN [err |-> IoError, buf |-> Fill(0, SIZE)]
    ELSE [err |-> Ok, buf |-> f[page + 1]]

\* page::write without its bound check: a distant page is appended.
page_write_NoBound(f, t, page, b, fault) ==
    IF fault.kind = "meta"
    THEN [err |-> IoError, file |-> f, tail |-> t, touched |-> FALSE]
    ELSE IF fault.kind = "torn"
    THEN IF page < Len(f)
         THEN [err |-> IoError,
               file |-> [f EXCEPT ![page + 1] = Torn(f[page + 1], b, fault.k)],
               tail |-> t, touched |-> TRUE]
         ELSE [err |-> IoError, file |-> f,
               tail |-> IF fault.k > t THEN fault.k ELSE t, touched |-> TRUE]
    ELSE IF page < Len(f)
    THEN [err |-> Ok, file |-> [f EXCEPT ![page + 1] = b],
          tail |-> t, touched |-> TRUE]
    ELSE [err |-> Ok, file |-> Append(f, b), tail |-> 0, touched |-> TRUE]

\* page::write without its seek: the buffer lands on page 0.
page_write_NoSeek(f, t, page, b, fault) ==
    IF fault.kind = "meta"
    THEN [err |-> IoError, file |-> f, tail |-> t, touched |-> FALSE]
    ELSE IF page > Len(f)
    THEN [err |-> WriteDistant, file |-> f, tail |-> t, touched |-> FALSE]
    ELSE IF fault.kind = "torn"
    THEN IF 0 < Len(f)
         THEN [err |-> IoError,
               file |-> [f EXCEPT ![1] = Torn(f[1], b, fault.k)],
               tail |-> t, touched |-> TRUE]
         ELSE [err |-> IoError, file |-> f,
               tail |-> IF fault.k > t THEN fault.k ELSE t, touched |-> TRUE]
    ELSE IF 0 < Len(f)
    THEN [err |-> Ok, file |-> [f EXCEPT ![1] = b],
          tail |-> t, touched |-> TRUE]
    ELSE [err |-> Ok, file |-> Append(f, b), tail |-> 0, touched |-> TRUE]

\* page::write that reports success on an append without storing the page.
page_write_DropAppend(f, t, page, b, fault) ==
    IF fault.kind = "meta"
    THEN [err |-> IoError, file |-> f, tail |-> t, touched |-> FALSE]
    ELSE IF page > Len(f)
    THEN [err |-> WriteDistant, file |-> f, tail |-> t, touched |-> FALSE]
    ELSE IF fault.kind = "torn"
    THEN IF page < Len(f)
         THEN [err |-> IoError,
               file |-> [f EXCEPT ![page + 1] = Torn(f[page + 1], b, fault.k)],
               tail |-> t, touched |-> TRUE]
         ELSE [err |-> IoError, file |-> f,
               tail |-> IF fault.k > t THEN fault.k ELSE t, touched |-> TRUE]
    ELSE IF page < Len(f)
    THEN [err |-> Ok, file |-> [f EXCEPT ![page + 1] = b],
          tail |-> t, touched |-> TRUE]
    ELSE [err |-> Ok, file |-> f, tail |-> t, touched |-> TRUE]

\* page::write with the bound of page::read: the page after the last one
\* is refused too.
page_write_ReadBound(f, t, page, b, fault) ==
    IF fault.kind = "meta"
    THEN [err |-> IoError, file |-> f, tail |-> t, touched |-> FALSE]
    ELSE IF page + 1 > Len(f)
    THEN [err |-> WriteDistant, file |-> f, tail |-> t, touched |-> FALSE]
    ELSE IF fault.kind = "torn"
    THEN [err |-> IoError,
          file |-> [f EXCEPT ![page + 1] = Torn(f[page + 1], b, fault.k)],
          tail |-> t, touched |-> TRUE]
    ELSE [err |-> Ok, file |-> [f EXCEPT ![page + 1] = b],
          tail |-> t, touched |-> TRUE]

\* page::write. t is the number of stray bytes after the last whole page.
page_write(f, t, page, b, fault) ==
    IF fault.kind = "meta"
    THEN [err |-> IoError, file |-> f, tail |-> t, touched |-> FALSE]
    ELSE IF page > Len(f)
    THEN [err |-> WriteDistant, file |-> f, tail |-> t, touched |-> FALSE]
    ELSE IF fault.kind = "torn"
    THEN IF page < Len(f)
         THEN [err |-> IoError,
               file |-> [f EXCEPT ![page + 1] = Torn(f[page + 1], b, fault.k)],
               tail |-> t, touched |-> TRUE]
         ELSE [err |-> IoError, file |-> f,
               tail |-> IF fault.k > t THEN fault.k ELSE t, touched |-> TRUE]
    ELSE IF page < Len(f)
    THEN [err |-> Ok, file |-> [f EXCEPT ![page + 1] = b],
          tail |-> t, touched |-> TRUE]
    ELSE [err |-> Ok, file |-> Append(f, b), tail |-> 0, touched |-> TRUE]

\* page::copy with source and destination exchanged.
page_copy_Swapped(f, t, src, dst, rf, wf) ==
    IF src = dst
    THEN [err |-> SelfCopy, file |-> f, tail |-> t, touched |-> FALSE]
    ELSE LET r == page_read(f, dst, rf)
         IN  IF r.err # Ok
             THEN [err |-> r.err, file |-> f, tail |-> t, touched |-> FALSE]
             ELSE page_write(f, t, src, r.buf, wf)

\* page::copy without the check that the two pages differ.
page_copy_NoSelfCheck(f, t, src, dst, rf, wf) ==
    LET r == page_read(f, src, rf)
    IN  IF r.err # Ok
        THEN [err |-> r.err, file |-> f, tail |-> t, touched |-> FALSE]
        ELSE page_write(f, t, dst, r.buf, wf)

\* page::copy that tests its destination before it reads its source.
page_copy_DstFirst(f, t, src, dst, rf, wf) ==
    IF src = dst
    THEN [err |-> SelfCopy, file |-> f, tail |-> t, touched |-> FALSE]
    ELSE IF dst > Len(f)
    THEN [err |-> WriteDistant, file |-> f, tail |-> t, touched |-> FALSE]
    ELSE LET r == page_read(f, src, rf)
         IN  IF r.err # Ok
             THEN [err |-> r.err, file |-> f, tail |-> t, touched |-> FALSE]
             ELSE page_write(f, t, dst, r.buf, wf)

\* page::copy
page_copy(f, t, src, dst, rf, wf) ==
    IF src = dst
    THEN [err |-> SelfCopy, file |-> f, tail |-> t, touched |-> FALSE]
    ELSE LET r == page_read(f, src, rf)
         IN  IF r.err # Ok
             THEN [err |-> r.err, file |-> f, tail |-> t, touched |-> FALSE]
             ELSE page_write(f, t, dst, r.buf, wf)

\* The assembled page with its last byte left at 0.
Stamp_NoCrc(payload) == Append(payload, 0)

\* The page assembled by meta::write and meta::init: payload then its CRC.
Stamp(payload) == Append(payload, crc(CRC_POLY, payload))

\* The backup page written back as it was read.
Restamp_Skip(page) == page

\* meta::read on a mismatch: the CRC of the page read from backup is
\* recomputed over its payload and stored in its last byte.
Restamp(page) == Append(SubSeq(page, 1, SIZE - 1),
                        crc(CRC_POLY, SubSeq(page, 1, SIZE - 1)))

\* The CRC computed over the whole page instead of the payload.
Mismatch_WholePage(page) == page[SIZE] # crc(CRC_POLY, page)

\* meta::read: the stored CRC differs from the one computed over the payload.
Mismatch(page) == page[SIZE] # crc(CRC_POLY, SubSeq(page, 1, SIZE - 1))

(***************************************************************************)
(* State                                                                   *)
(***************************************************************************)
VARIABLES
    file,     \* whole pages of the file, as the operating system shows them
    tail,     \* stray bytes after the last whole page (a torn append)
    disk,     \* whole pages that have reached the storage medium
    pc,       \* position of the running operation, "idle" between calls
    op,       \* the running (or most recent) call and its arguments
    pre,      \* file at the start of that call
    buf,      \* the page buffer the running operation holds
    out,      \* the caller's output buffer
    ret,      \* result of the most recent call, "none" while it runs
    ev,       \* file events of the running call, in order
    prev,     \* the call before op and its result
    damage,   \* what happened to the medium since the last call ended
    sess,     \* the meta record set up by the last successful init
    pair,     \* the (main, backup) page numbers the meta calls are given
    nops, ndamage

vars == <<file, tail, disk, pc, op, pre, buf, out, ret, ev, prev, damage,
          sess, pair, nops, ndamage>>

NoDamage == [kind |-> "none", page |-> 0]
NoOp == [name |-> "none", main |-> 0, backup |-> 0, arg |-> ZeroPayload,
         pok |-> FALSE, p |-> ZeroPayload, dmg |-> NoDamage]
NoSess == [on |-> FALSE, prev |-> ZeroPayload]

Exists(f, page) == page < Len(f)
PageAt(f, page) == IF page < Len(f) THEN f[page + 1] ELSE <<>>

\* The file when the program starts: empty, or one page of some content.
InitFiles == {<<>>} \cup {<<a>> : a \in Bufs}

Init ==
    /\ file \in InitFiles
    /\ tail = 0
    /\ disk = file
    /\ pc = "idle"
    /\ op = NoOp
    /\ pre = file
    /\ buf = Fill(0, SIZE)
    /\ out = Fill(1, SIZE - 1)
    /\ ret = "none"
    /\ ev = <<>>
    /\ prev = [op |-> NoOp, ret |-> "none"]
    /\ damage = NoDamage
    /\ sess = NoSess
    /\ pair \in PageNos \X PageNos
    /\ nops = 0
    /\ ndamage = 0

(***************************************************************************)
(* Calls                                                                   *)
(***************************************************************************)
\* The record of a call: its arguments, what main held when it started
\* (pok: main exists, is CRC-valid and has reached the medium) and what
\* happened to the medium just before it.
MkOp(name, main, backup, arg) ==
    [name |-> name, main |-> main, backup |-> backup, arg |-> arg,
     pok |-> /\ Exists(file, main)
             /\ CrcValid(file[main + 1])
             /\ Exists(disk, main)
             /\ disk[main + 1] = file[main + 1],
     p |-> IF Exists(file, main) THEN Payload(file[main + 1]) ELSE ZeroPayload,
     dmg |-> damage]

\* Bookkeeping common to the start of every call; limit bounds the calls.
Call(o, limit) ==
    /\ pc = "idle"
    /\ nops < limit
    /\ nops' = nops + 1
    /\ op' = o
    /\ pre' = file
    /\ ev' = <<>>
    /\ prev' = [op |-> op, ret |-> ret]
    /\ damage' = NoDamage
    /\ UNCHANGED <<pair, ndamage>>

Step == UNCHANGED <<op, pre, prev, damage, pair, nops, ndamage>>

(***************************************************************************)
(* page.rs: read, write, copy called directly                              *)
(***************************************************************************)
PageRead(limit) ==
    \E page \in PageNos, rf \in ReadFaults :
        LET r == page_read(file, page, rf)
        IN  /\ Call(MkOp("page_read", page, page, buf), limit)
            /\ buf' = IF r.err = Ok THEN r.buf ELSE buf
            /\ ret' = r.err
            /\ pc' = "idle"
            /\ sess' = NoSess
            /\ UNCHANGED <<file, tail, disk, out>>

PageWrite(limit) ==
    \E page \in PageNos, b \in Bufs, wf \in WriteFaults :
        LET r == page_write(file, tail, page, b, wf)
        IN  /\ Call(MkOp("page_write", page, page, b), limit)
            /\ file' = r.file
            /\ tail' = r.tail
            /\ ret' = r.err
            /\ pc' = "idle"
            /\ sess' = NoSess
            /\ UNCHANGED <<disk, buf, out>>

PageCopy(limit) ==
    \E src \in PageNos, dst \in PageNos, rf \in ReadFaults, wf \in WriteFaults :
        LET r == page_copy(file, tail, src, dst, rf, wf)
        IN  /\ Call(MkOp("page_copy", src, dst, ZeroPayload), limit)
            /\ file' = r.file
            /\ tail' = r.tail
            /\ ret' = r.err
            /\ pc' = "idle"
            /\ sess' = NoSess
            /\ UNCHANGED <<disk, buf, out>>

(***************************************************************************)
(* meta.rs: write                                                          *)
(***************************************************************************)
MetaWriteCall(limit) ==
    \E v \in Payloads :
        /\ Call(MkOp("meta_write", pair[1], pair[2], v), limit)
        /\ pc' = "w_copy"
        /\ ret' = "none"
        /\ sess' = IF damage = NoDamage THEN sess ELSE NoSess
        /\ UNCHANGED <<file, tail, disk, buf, out>>

\* page::copy(file, pair.0, pair.1)?
WCopy(rfs, wfs) ==
    /\ pc = "w_copy"
    /\ \E rf \in rfs, wf \in wfs :
        LET r == page_copy(file, tail, op.main, op.backup, rf, wf)
        IN  /\ file' = r.file
            /\ tail' = r.tail
            /\ ev' = IF r.touched THEN Append(ev, "backup") ELSE ev
            /\ pc' = IF r.err = Ok THEN "w_sync" ELSE "idle"
            /\ ret' = IF r.err = Ok THEN ret ELSE r.err
            /\ sess' = IF r.err = IoError THEN NoSess ELSE sess
    /\ Step
    /\ UNCHANGED <<disk, buf, out>>

\* file.sync_all()?
WSync(fails) ==
    /\ pc = "w_sync"
    /\ \E fail \in fails :
        IF fail
        THEN /\ pc' = "idle"
             /\ ret' = IoError
             /\ sess' = NoSess
             /\ UNCHANGED <<disk, ev>>
        ELSE /\ disk' = file
             /\ ev' = Append(ev, "flush")
             /\ pc' = "w_main"
             /\ UNCHANGED <<ret, sess>>
    /\ Step
    /\ UNCHANGED <<file, tail, buf, out>>

\* page::write(file, pair.0, &page) with page = buf followed by crc(buf)
WMain(wfs) ==
    /\ pc = "w_main"
    /\ \E wf \in wfs :
        LET r == page_write(file, tail, op.main, Stamp(op.arg), wf)
        IN  /\ file' = r.file
            /\ tail' = r.tail
            /\ ev' = IF r.touched THEN Append(ev, "main") ELSE ev
            /\ ret' = r.err
            /\ sess' = IF sess.on /\ r.touched /\ Exists(file, op.main)
                       THEN [sess EXCEPT !.prev = Payload(file[op.main + 1])]
                       ELSE sess
    /\ pc' = "idle"
    /\ Step
    /\ UNCHANGED <<disk, buf, out>>

(***************************************************************************)
(* meta.rs: init                                                           *)
(***************************************************************************)
\* meta::init writing main first and backup second.
MetaInitCall_MainFirst(limit) ==
    /\ Call(MkOp("meta_init", pair[2], pair[1], ZeroPayload), limit)
    /\ pc' = "i_backup"
    /\ ret' = "none"
    /\ sess' = NoSess
    /\ UNCHANGED <<file, tail, disk, buf, out>>

MetaInitCall(limit) ==
    /\ Call(MkOp("meta_init", pair[1], pair[2], ZeroPayload), limit)
    /\ pc' = "i_backup"
    /\ ret' = "none"
    /\ sess' = NoSess
    /\ UNCHANGED <<file, tail, disk, buf, out>>

\* page::write(file, pair.1, &page)?
IBackup(wfs) ==
    /\ pc = "i_backup"
    /\ \E wf \in wfs :
        LET r == page_write(file, tail, op.backup, Stamp(ZeroPayload), wf)
        IN  /\ file' = r.file
            /\ tail' = r.tail
            /\ ev' = IF r.touched THEN Append(ev, "backup") ELSE ev
            /\ pc' = IF r.err = Ok THEN "i_sync" ELSE "idle"
            /\ ret' = IF r.err = Ok THEN ret ELSE r.err
    /\ Step
    /\ UNCHANGED <<disk, buf, out, sess>>

\* file.sync_all()?
ISync(fails) ==
    /\ pc = "i_sync"
    /\ \E fail \in fails :
        IF fail
        THEN /\ pc' = "idle"
             /\ ret' = IoError
             /\ UNCHANGED <<disk, ev>>
        ELSE /\ disk' = file
             /\ ev' = Append(ev, "flush")
             /\ pc' = "i_main"
             /\ UNCHANGED ret
    /\ Step
    /\ UNCHANGED <<file, tail, buf, out, sess>>

\* page::write(file, pair.0, &page)
IMain(wfs) ==
    /\ pc = "i_main"
    /\ \E wf \in wfs :
        LET r == page_write(file, tail, op.main, Stamp(ZeroPayload), wf)
        IN  /\ file' = r.file
            /\ tail' = r.tail
            /\ ev' = IF r.touched THEN Append(ev, "main") ELSE ev
            /\ ret' = r.err
            /\ sess' = IF r.err = Ok
                       THEN [on |-> TRUE, prev |-> ZeroPayload]
                       ELSE NoSess
    /\ pc' = "idle"
    /\ Step
    /\ UNCHANGED <<disk, buf, out>>

(***************************************************************************)
(* meta.rs: read                                                           *)
(***************************************************************************)
\* arg records what the caller's buffer holds before the call.
MetaReadCall(limit) ==
    /\ Call(MkOp("meta_read", pair[1], pair[2], out), limit)
    /\ pc' = "r_main"
    /\ ret' = "none"
    /\ sess' = IF damage = NoDamage THEN sess ELSE NoSess
    /\ UNCHANGED <<file, tail, disk, buf, out>>

\* page::read(file, pair.0, &mut page)?, the CRC comparison, and on a match
\* buf.copy_from_slice(&page[0..SIZE - 1]).
RMain(rfs) ==
    /\ pc = "r_main"
    /\ \E rf \in rfs :
        LET r == page_read(file, op.main, rf)
        IN  IF r.err # Ok
            THEN /\ pc' = "idle"
                 /\ ret' = r.err
                 /\ sess' = IF r.err = IoError THEN NoSess ELSE sess
                 /\ UNCHANGED <<buf, out>>
            ELSE IF Mismatch(r.buf)
            THEN /\ pc' = "r_backup"
                 /\ buf' = r.buf
                 /\ UNCHANGED <<ret, out, sess>>
            ELSE /\ pc' = "idle"
                 /\ buf' = r.buf
                 /\ out' = SubSeq(r.buf, 1, SIZE - 1)
                 /\ ret' = Ok
                 /\ UNCHANGED sess
    /\ Step
    /\ UNCHANGED <<file, tail, disk, ev>>

\* page::read(file, pair.1, &mut page)? and the re-stamped CRC.
RBackup(rfs) ==
    /\ pc = "r_backup"
    /\ \E rf \in rfs :
        LET r == page_read(file, op.backup, rf)
        IN  IF r.err # Ok
            THEN /\ pc' = "idle"
                 /\ ret' = r.err
                 /\ sess' = IF r.err = IoError THEN NoSess ELSE sess
                 /\ UNCHANGED buf
            ELSE /\ pc' = "r_heal"
                 /\ buf' = Restamp(r.buf)
                 /\ UNCHANGED <<ret, sess>>
    /\ Step
    /\ UNCHANGED <<file, tail, disk, ev, out>>

\* meta::read copying the payload to the caller before the repair write.
RHeal_CopyFirst(wfs) ==
    /\ pc = "r_heal"
    /\ \E wf \in wfs :
        LET r == page_write(file, tail, op.main, buf, wf)
        IN  /\ file' = r.file
            /\ tail' = r.tail
            /\ ev' = IF r.touched THEN Append(ev, "heal") ELSE ev
            /\ ret' = r.err
            /\ out' = SubSeq(buf, 1, SIZE - 1)
    /\ pc' = "idle"
    /\ Step
    /\ UNCHANGED <<disk, buf, sess>>

\* page::write(file, pair.0, &page)? and buf.copy_from_slice(..).
RHeal(wfs) ==
    /\ pc = "r_heal"
    /\ \E wf \in wfs :
        LET r == page_write(file, tail, op.main, buf, wf)
        IN  /\ file' = r.file
            /\ tail' = r.tail
            /\ ev' = IF r.touched THEN Append(ev, "heal") ELSE ev
            /\ ret' = r.err
            /\ out' = IF r.err = Ok THEN SubSeq(buf, 1, SIZE - 1) ELSE out
    /\ pc' = "idle"
    /\ Step
    /\ UNCHANGED <<disk, buf, sess>>

(***************************************************************************)
(* The environment: a crash, and corruption of a stored page               *)
(***************************************************************************)
\* What a page can hold after a crash: it reached the medium wholly, not at
\* all, or up to some byte.
Outcomes(f, d, i) ==
    LET old == IF i <= Len(d) THEN d[i] ELSE Fill(0, SIZE)
    IN  {Torn(old, f[i], k) : k \in 0..SIZE}

AfterCrash(f, d) ==
    UNION {
        {g \in [1..n -> UNION {Outcomes(f, d, i) : i \in 1..n}] :
            \A i \in 1..n : g[i] \in Outcomes(f, d, i)}
        : n \in Len(d)..Len(f)}

\* The process dies; what had not been flushed may be lost or torn. The
\* running call, if any, never returns.
Crash ==
    /\ ndamage < MaxDamage
    /\ nops < MaxOps
    /\ ndamage' = ndamage + 1
    /\ \E g \in AfterCrash(file, disk) :
        /\ file' = g
        /\ disk' = g
    /\ tail' \in {0, tail}
    /\ pc' = "idle"
    /\ IF pc = "idle"
       THEN /\ damage' = [kind |-> "crash", page |-> 0]
            /\ UNCHANGED ret
       ELSE /\ ret' = Crashed
            /\ UNCHANGED damage
    /\ sess' = NoSess
    /\ UNCHANGED <<op, pre, prev, ev, buf, out, pair, nops>>

FlipBit(page, i, j) ==
    [page EXCEPT ![i] = xor(page[i], Pow2(j))]

\* The stored main page is damaged after a call that succeeded: one bit
\* flips, or the whole page is overwritten.
Corrupt ==
    /\ pc = "idle"
    /\ ndamage < MaxDamage
    /\ nops < MaxOps
    /\ ret = Ok
    /\ ndamage' = ndamage + 1
    /\ \E page \in {pair[1]} :
        /\ Exists(file, page)
        /\ \E kind \in {"flip", "overwrite"} :
            \E new \in IF kind = "flip"
                       THEN {FlipBit(file[page + 1], i, j) :
                                i \in 1..SIZE, j \in 0..7}
                       ELSE Bufs :
                /\ file' = [file EXCEPT ![page + 1] = new]
                /\ disk' = IF Exists(disk, page)
                           THEN [disk EXCEPT ![page + 1] = new]
                           ELSE disk
                /\ damage' = IF damage = NoDamage
                             THEN [kind |-> kind, page |-> page]
                             ELSE [kind |-> "many", page |-> 0]
    /\ sess' = NoSess
    /\ UNCHANGED <<tail, pc, op, pre, prev, ev, ret, buf, out, pair, nops>>

\* Faults of the main overwrite alone: it completes or stops partway.
MainTears == {NoFault} \cup {[kind |-> "torn", k |-> k] : k \in 1..(SIZE - 1)}

\* The meta layer over one file, with every fault and its environment.
Next ==
    \/ MetaWriteCall(MaxOps)
    \/ WCopy(ReadFaults, WriteFaults)
    \/ WSync(BOOLEAN)
    \/ WMain(WriteFaults)
    \/ MetaInitCall(MaxOps)
    \/ IBackup(WriteFaults)
    \/ ISync(BOOLEAN)
    \/ IMain(WriteFaults)
    \/ MetaReadCall(MaxOps)
    \/ RMain(ReadFaults)
    \/ RBackup(ReadFaults)
    \/ RHeal(WriteFaults)
    \/ Crash
    \/ Corrupt

Spec == Init /\ [][Next]_vars

\* A record's life: init, write and read calls, where only an overwrite of
\* main may stop partway.
NextSess ==
    \/ MetaWriteCall(MaxSessOps)
    \/ WCopy({"none"}, {NoFault})
    \/ WSync({FALSE})
    \/ WMain(MainTears)
    \/ MetaInitCall(MaxSessOps)
    \/ IBackup({NoFault})
    \/ ISync({FALSE})
    \/ IMain({NoFault})
    \/ MetaReadCall(MaxSessOps)
    \/ RMain({"none"})
    \/ RBackup({"none"})
    \/ RHeal(MainTears)

SpecSess == Init /\ [][NextSess]_vars

\* The page layer alone: read, write and copy called directly, with every
\* I/O fault.
NextPage ==
    \/ PageRead(MaxPageOps)
    \/ PageWrite(MaxPageOps)
    \/ PageCopy(MaxPageOps)

\* The file the page layer starts from: up to two whole pages.
InitPageFiles == InitFiles \cup {<<a, b>> : a \in Bufs, b \in Bufs}

InitPage ==
    /\ file \in InitPageFiles
    /\ tail = 0
    /\ disk = file
    /\ pc = "idle"
    /\ op = NoOp
    /\ pre = file
    /\ buf = Fill(0, SIZE)
    /\ out = Fill(1, SIZE - 1)
    /\ ret = "none"
    /\ ev = <<>>
    /\ prev = [op |-> NoOp, ret |-> "none"]
    /\ damage = NoDamage
    /\ sess = NoSess
    /\ pair = <<0, 1>>
    /\ nops = 0
    /\ ndamage = 0

SpecPage == InitPage /\ [][NextPage]_vars

\* The page layer and the meta layer over one file, with every I/O fault
\* but no crash and no corruption of the medium.
NextFile ==
    \/ PageRead(MaxOps)
    \/ PageWrite(MaxOps)
    \/ PageCopy(MaxOps)
    \/ MetaWriteCall(MaxOps)
    \/ WCopy(ReadFaults, WriteFaults)
    \/ WSync(BOOLEAN)
    \/ WMain(WriteFaults)
    \/ MetaInitCall(MaxOps)
    \/ IBackup(WriteFaults)
    \/ ISync(BOOLEAN)
    \/ IMain(WriteFaults)
    \/ MetaReadCall(MaxOps)
    \/ RMain(ReadFaults)
    \/ RBackup(ReadFaults)
    \/ RHeal(WriteFaults)

SpecFile == Init /\ [][NextFile]_vars

(***************************************************************************)
(* page.rs, mod slot: the block directory of a page and its checksum       *)
(***************************************************************************)
\* Size of the page buffers handed to the slot functions: page::SIZE scaled
\* down to the directory (3 + 4 * 5 bytes) and one byte after it.
SLOT_SIZE == 24

slot_CRC_POLY == 7
Block_SIZE == 4
OFFSET == 3
NBlocks == 5
BadChecksum == "BadChecksum"

\* u16::to_le_bytes and u16::from_le_bytes
to_le_bytes(v) == <<v % 256, v \div 256>>
from_le_bytes(b) == b[1] + 256 * b[2]

\* Block::default()
BlockDefault == [offset |-> 0, size |-> 0]

\* slot::write_checksum: page[0] = crc(CRC_POLY, &page[1..])
write_checksum(page) == [page EXCEPT ![1] = crc(slot_CRC_POLY, Tail(page))]

\* The checksum left as it was.
write_blocks_NoChecksum(page, blocks) ==
    [k \in 1..Len(page) |->
        IF k - 1 >= OFFSET /\ k - 1 < OFFSET + Block_SIZE * NBlocks
        THEN LET index == (k - 1 - OFFSET) \div Block_SIZE
                 r == (k - 1 - OFFSET) % Block_SIZE
             IN  IF r < 2
                 THEN to_le_bytes(blocks[index + 1].size)[r + 1]
                 ELSE to_le_bytes(blocks[index + 1].offset)[r - 1]
        ELSE page[k]]

\* The directory written from byte 1 instead of byte OFFSET.
write_blocks_FromByte1(page, blocks) ==
    write_checksum(
        [k \in 1..Len(page) |->
            IF k - 1 >= 1 /\ k - 1 < 1 + Block_SIZE * NBlocks
            THEN LET index == (k - 1 - 1) \div Block_SIZE
                     r == (k - 1 - 1) % Block_SIZE
                 IN  IF r < 2
                     THEN to_le_bytes(blocks[index + 1].size)[r + 1]
                     ELSE to_le_bytes(blocks[index + 1].offset)[r - 1]
            ELSE page[k]])

\* Each block written offset first, then size.
write_blocks_OffsetFirst(page, blocks) ==
    write_checksum(
        [k \in 1..Len(page) |->
            IF k - 1 >= OFFSET /\ k - 1 < OFFSET + Block_SIZE * NBlocks
            THEN LET index == (k - 1 - OFFSET) \div Block_SIZE
                     r == (k - 1 - OFFSET) % Block_SIZE
                 IN  IF r < 2
                     THEN to_le_bytes(blocks[index + 1].offset)[r + 1]
                     ELSE to_le_bytes(blocks[index + 1].size)[r - 1]
            ELSE page[k]])

\* slot::write_blocks: block index occupies the four bytes from
\* OFFSET + Block::SIZE * index, size first, then offset; then the checksum.
write_blocks(page, blocks) ==
    write_checksum(
        [k \in 1..Len(page) |->
            IF k - 1 >= OFFSET /\ k - 1 < OFFSET + Block_SIZE * NBlocks
            THEN LET index == (k - 1 - OFFSET) \div Block_SIZE
                     r == (k - 1 - OFFSET) % Block_SIZE
                 IN  IF r < 2
                     THEN to_le_bytes(blocks[index + 1].size)[r + 1]
                     ELSE to_le_bytes(blocks[index + 1].offset)[r - 1]
            ELSE page[k]])

\* The checksum compared over the directory bytes only.
verify_checksum_DirOnly(page) ==
    IF page[1] = crc(slot_CRC_POLY, Tail(page))
       \/ page[1] = crc(slot_CRC_POLY,
                        SubSeq(page, 2, OFFSET + Block_SIZE * NBlocks))
    THEN Ok ELSE BadChecksum

\* slot::verify_checksum
verify_checksum(page) ==
    IF page[1] = crc(slot_CRC_POLY, Tail(page)) THEN Ok ELSE BadChecksum

\* The two u16 read as big-endian.
read_blocks_BigEndian(page) ==
    [i \in 1..NBlocks |->
        LET base == OFFSET + Block_SIZE * (i - 1)
        IN  [size |-> page[base + 2] + 256 * page[base + 1],
             offset |-> page[base + 4] + 256 * page[base + 3]]]

\* slot::read_blocks
read_blocks(page) ==
    [i \in 1..NBlocks |->
        LET base == OFFSET + Block_SIZE * (i - 1)
        IN  [size |-> from_le_bytes(SubSeq(page, base + 1, base + 2)),
             offset |-> from_le_bytes(SubSeq(page, base + 3, base + 4))]]

\* Block directories handed to write_blocks: the ones of the tests (empty,
\* partially filled, filled with (index + 1) * 100, with u16::MAX) and two
\* with bytes that differ between the low and the high half.
BlockArrays ==
    {[i \in 1..NBlocks |-> BlockDefault],
     [i \in 1..NBlocks |->
        IF i = 1 THEN [offset |-> 1234, size |-> 1034] ELSE BlockDefault],
     [i \in 1..NBlocks |-> [offset |-> i * 100, size |-> i * 100]],
     [i \in 1..NBlocks |->
        IF i = 1 THEN [offset |-> 1234, size |-> 1034]
        ELSE IF i = 3 THEN [offset |-> 65535, size |-> 65535]
        ELSE BlockDefault],
     [i \in 1..NBlocks |-> [offset |-> 256 * i, size |-> i]],
     [i \in 1..NBlocks |-> [offset |-> 65535 - i, size |-> 255 + i]]}

\* Page buffers the slot functions start from: all zero, a constant fill,
\* and one whose bytes all differ.
SlotPages ==
    {Fill(0, SLOT_SIZE), Fill(1, SLOT_SIZE), [k \in 1..SLOT_SIZE |-> 10 * k]}

InitSlot ==
    /\ file = <<>>
    /\ tail = 0
    /\ disk = file
    /\ pc = "idle"
    /\ op = NoOp
    /\ buf \in SlotPages
    /\ pre = buf
    /\ out = [i \in 1..NBlocks |-> BlockDefault]
    /\ ret = "none"
    /\ ev = <<>>
    /\ prev = [op |-> NoOp, ret |-> "none"]
    /\ damage = NoDamage
    /\ sess = NoSess
    /\ pair = <<0, 1>>
    /\ nops = 0
    /\ ndamage = 0

\* Bookkeeping at a call of a slot function: pre is the page buffer as the
\* call finds it, ev the calls made so far.
SlotCall(name, arg) ==
    /\ pc = "idle"
    /\ nops < MaxSlotOps
    /\ nops' = nops + 1
    /\ op' = [NoOp EXCEPT !.name = name, !.arg = arg, !.dmg = damage]
    /\ pre' = buf
    /\ prev' = [op |-> op, ret |-> ret]
    /\ damage' = NoDamage
    /\ ev' = Append(ev, name)
    /\ UNCHANGED <<file, tail, disk, pc, sess, pair, ndamage>>

SlotWrite ==
    \E blocks \in BlockArrays :
        /\ Len(SelectSeq(ev, LAMBDA e : e = "write_blocks")) < MaxSlotWrites
        /\ SlotCall("write_blocks", blocks)
        /\ buf' = write_blocks(buf, blocks)
        /\ ret' = Ok
        /\ UNCHANGED out

SlotRead ==
    /\ SlotCall("read_blocks", <<>>)
    /\ out' = read_blocks(buf)
    /\ ret' = Ok
    /\ UNCHANGED buf

SlotVerify ==
    /\ SlotCall("verify_checksum", <<>>)
    /\ ret' = verify_checksum(buf)
    /\ UNCHANGED <<buf, out>>

\* One bit of the page buffer flips after write_blocks has been applied.
SlotFlip ==
    /\ pc = "idle"
    /\ op.name = "write_blocks"
    /\ ndamage < MaxDamage
    /\ nops < MaxSlotOps
    /\ damage = NoDamage
    /\ ndamage' = ndamage + 1
    /\ \E i \in 1..SLOT_SIZE, j \in 0..7 :
        /\ buf' = FlipBit(buf, i, j)
        /\ damage' = [kind |-> "flip", page |-> i - 1]
    /\ UNCHANGED <<file, tail, disk, pc, op, pre, out, ret, ev, prev, sess,
                   pair, nops>>

NextSlot ==
    \/ SlotWrite
    \/ SlotRead
    \/ SlotVerify
    \/ SlotFlip

SpecSlot == InitSlot /\ [][NextSlot]_vars

(***************************************************************************)
(* integrity.rs: crc run one Register::shift at a time                     *)
(***************************************************************************)
\* Polynomials: the ones of the tests and of the two page layers, and 0.
CrcPolys == {7, 47, 176, 255, 0}

\* Inputs: every sequence of up to MaxCrcLen of these bytes, and the two
\* vectors of the tests.
CrcBytes == {0, 1, 128, 171, 255}
CrcInputs ==
    UNION {[1..len -> CrcBytes] : len \in 0..MaxCrcLen}
        \cup {<<171, 205, 239>>, <<171, 205, 239, 170, 187, 204>>}

\* out holds the Register, ev the bits Register::shift has returned, buf the
\* input n and op.arg the polynomial.
InitCrc ==
    /\ file = <<>>
    /\ tail = 0
    /\ disk = file
    /\ pc = "idle"
    /\ op = NoOp
    /\ pre = <<>>
    /\ buf = <<>>
    /\ out = RegisterNew(<<>>)
    /\ ret = "none"
    /\ ev = <<>>
    /\ prev = [op |-> NoOp, ret |-> "none"]
    /\ damage = NoDamage
    /\ sess = NoSess
    /\ pair = <<0, 1>>
    /\ nops = 0
    /\ ndamage = 0

\* let mut register = Register::new(n);
CrcCall ==
    /\ pc = "idle"
    /\ nops < MaxCrcCalls
    /\ nops' = nops + 1
    /\ \E poly \in CrcPolys, n \in CrcInputs :
        /\ op' = [NoOp EXCEPT !.name = "crc", !.arg = poly]
        /\ buf' = n
        /\ out' = RegisterNew(n)
    /\ pc' = "crc_loop"
    /\ ret' = "none"
    /\ ev' = <<>>
    /\ UNCHANGED <<file, tail, disk, pre, prev, damage, sess, pair, ndamage>>

\* while let Some(bit) = register.shift() { if Bit::Set == bit { xor } }
CrcShift ==
    /\ pc = "crc_loop"
    /\ out.idx <= Len(buf)
    /\ ev' = Append(ev, out.current \div 128)
    /\ out' = crcStep(op.arg, out, buf)
    /\ UNCHANGED <<file, tail, disk, pc, op, pre, buf, ret, prev, damage,
                   sess, pair, nops, ndamage>>

\* register.shift() returns None; register.get()
CrcReturn ==
    /\ pc = "crc_loop"
    /\ out.idx > Len(buf)
    /\ ret' = out.current
    /\ pc' = "idle"
    /\ UNCHANGED <<file, tail, disk, op, pre, buf, out, ev, prev, damage,
                   sess, pair, nops, ndamage>>

NextCrc ==
    \/ CrcCall
    \/ CrcShift
    \/ CrcReturn

SpecCrc == InitCrc /\ [][NextCrc]_vars

(***************************************************************************)
(* page.rs: read with the arithmetic of u64                                *)
(***************************************************************************)
\* Page numbers and offsets are u64: 0 .. U64_WRAP - 1.
U64_WRAP == Pow2(U64_BITS)
U64 == 0..(U64_WRAP - 1)

\* The bytes of the file, one after the other.
FileBytes(f) ==
    [i \in 1..(Len(f) * SIZE) |-> f[((i - 1) \div SIZE) + 1][((i - 1) % SIZE) + 1]]

\* page::read on u64. An addition or multiplication whose result does not
\* fit panics when the build has overflow checks (the dev profile) and
\* wraps when it has not (the release profile). Seek::seek hands the offset
\* to the system as a signed number, which refuses a negative one;
\* read_exact fails when fewer than SIZE bytes follow the offset.
\* passed tells whether the bound check let the call through.
page_read_u64(f, page, overflow_checks) ==
    LET max == Len(f)
        sum == page + 1
        offset == page * SIZE
        bytes == FileBytes(f)
        at == offset % U64_WRAP
    IN  IF sum >= U64_WRAP /\ overflow_checks
        THEN [err |-> Panicked, buf |-> Fill(0, SIZE), passed |-> FALSE]
        ELSE IF (sum % U64_WRAP) > max
        THEN [err |-> ReadDistant, buf |-> Fill(0, SIZE), passed |-> FALSE]
        ELSE IF offset >= U64_WRAP /\ overflow_checks
        THEN [err |-> Panicked, buf |-> Fill(0, SIZE), passed |-> TRUE]
        ELSE IF at >= U64_WRAP \div 2
        THEN [err |-> IoError, buf |-> Fill(0, SIZE), passed |-> TRUE]
        ELSE IF at + SIZE > Len(bytes)
        THEN [err |-> IoError, buf |-> Fill(0, SIZE), passed |-> TRUE]
        ELSE [err |-> Ok, buf |-> SubSeq(bytes, at + 1, at + SIZE),
              passed |-> TRUE]

\* A call of page::read with any u64 as page number, in either build; ev
\* records the build and whether the bound check was passed.
PageReadU64 ==
    \E page \in U64, overflow_checks \in BOOLEAN :
        LET r == page_read_u64(file, page, overflow_checks)
        IN  /\ pc = "idle"
            /\ nops < MaxU64Ops
            /\ nops' = nops + 1
            /\ op' = MkOp("page_read", page, page, buf)
            /\ pre' = file
            /\ prev' = [op |-> op, ret |-> ret]
            /\ ev' = <<IF overflow_checks THEN "checked" ELSE "wrapping">>
                        \o (IF r.passed THEN <<"seek">> ELSE <<>>)
            /\ buf' = IF r.err = Ok THEN r.buf ELSE buf
            /\ ret' = r.err
            /\ UNCHANGED <<file, tail, disk, pc, out, damage, sess, pair,
                           ndamage>>

NextU64 == PageReadU64

SpecU64 == InitPage /\ [][NextU64]_vars

(***************************************************************************)
(* Properties                                                              *)
(***************************************************************************)
M == op.main
B == op.backup
\* The most recent call has returned (it was not cut short by a crash) and
\* the medium has not been damaged since.
Returned == pc = "idle" /\ ret \notin {"none", Crashed} /\ damage = NoDamage
\* ... and no low-level I/O failure was reported by it.
ReturnedNoIo == Returned /\ ret # IoError
IsPrefix(a, b) == Len(a) <= Len(b) /\ a = SubSeq(b, 1, Len(a))

\* A read that directly follows a write on the same pair.
ReadAfterWrite ==
    /\ pc = "idle"
    /\ op.name = "meta_read"
    /\ prev.op.name = "meta_write"

C2_BarrierOrdering ==
    (op.name \in {"meta_write", "meta_init"} /\ ret # Crashed
        /\ damage = NoDamage)
        => /\ IsPrefix(ev, <<"backup", "flush", "main">>)
           /\ PageAt(file, M) # PageAt(pre, M) => Len(ev) >= 2

\* The ordering of C2 for a pair of two different pages.
C2_OrderingDistinctPair ==
    (op.name \in {"meta_write", "meta_init"} /\ ret # Crashed
        /\ damage = NoDamage /\ M # B)
        => /\ IsPrefix(ev, <<"backup", "flush", "main">>)
           /\ PageAt(file, M) # PageAt(pre, M) => Len(ev) >= 2

\* C3: between the calls that follow a successful init, with only main
\* overwrites failing, backup is a CRC-valid page whose payload is what main
\* held before the most recent overwrite of main by write.
C3_BackupLastGood ==
    (sess.on /\ pc = "idle")
        => /\ Exists(file, pair[2])
           /\ CrcValid(file[pair[2] + 1])
           /\ Payload(file[pair[2] + 1]) = sess.prev

MainOk == Exists(pre, M) /\ CrcValid(pre[M + 1])
BackupOk == Exists(pre, B) /\ CrcValid(pre[B + 1])

\* C4: a read that meets no I/O failure returns main's payload when main is
\* CRC-valid, and backup's payload when main is not intact and backup is a
\* CRC-valid page.
C4_ReadGoodData ==
    (op.name = "meta_read" /\ pc = "idle" /\ ret \notin {IoError, Crashed})
        => /\ MainOk => ret = Ok /\ out = Payload(pre[M + 1])
           /\ ~MainOk /\ BackupOk => ret = Ok /\ out = Payload(pre[B + 1])

\* C4 amended: the same, where "main is not intact" means that the main
\* page is stored in the file and its CRC does not match.
C4_ReadGoodDataMainStored ==
    (op.name = "meta_read" /\ pc = "idle" /\ ret \notin {IoError, Crashed})
        => /\ MainOk => ret = Ok /\ out = Payload(pre[M + 1])
           /\ Exists(pre, M) /\ ~MainOk /\ BackupOk
                => ret = Ok /\ out = Payload(pre[B + 1])

C4_Witness ==
    /\ op.name = "meta_read" /\ pc = "idle" /\ ret = Ok
    /\ Exists(pre, M) /\ ~MainOk /\ BackupOk
    /\ out = Payload(pre[B + 1])
    /\ out # op.arg

\* C5: after a successful write, one bit of main's stored page flips, or the
\* page is overwritten so that its CRC no longer matches; the read that
\* follows returns backup's payload, and a direct page read of main then
\* shows that payload followed by its CRC.
C5_SelfHealing ==
    (/\ ReadAfterWrite
     /\ prev.ret = Ok
     /\ ReturnedNoIo
     /\ \/ op.dmg.kind = "flip"
        \/ op.dmg.kind = "overwrite" /\ Mismatch(pre[M + 1]))
        => /\ ret = Ok
           /\ out = Payload(pre[B + 1])
           /\ page_read(file, M, "none")
                = [err |-> Ok,
                   buf |-> Append(Payload(pre[B + 1]),
                                  crc(CRC_POLY, Payload(pre[B + 1])))]

C5_Witness ==
    /\ ReadAfterWrite /\ prev.ret = Ok /\ ret = Ok
    /\ op.dmg.kind = "flip"
    /\ out = Payload(pre[B + 1])
    /\ out # prev.op.arg
    /\ ~CrcValid(pre[B + 1])

C7_StepOneBackup ==
    (op.name = "meta_write" /\ ret # Crashed /\ damage = NoDamage
        /\ Len(ev) >= 2)
        => /\ Exists(pre, M)
           /\ PageAt(file, B) = pre[M + 1]
           /\ ret = Ok =>
                file[M + 1] = Append(op.arg, crc(CRC_POLY, op.arg))

C7_Witness ==
    /\ op.name = "meta_write" /\ pc = "idle" /\ ret = IoError
    /\ ev = <<"backup", "flush", "main">>
    /\ file[M + 1] # pre[M + 1]
    /\ file[B + 1] = pre[M + 1]
    /\ PageAt(pre, B) # pre[M + 1]

\* C8: write with an existing main and a backup page number beyond the page
\* count returns the write OutOfRange error and leaves the file, main
\* included, as it was; and whenever write returns that error the file is
\* as it was.
C8_BackupOutOfRange ==
    (op.name = "meta_write" /\ ReturnedNoIo)
        => /\ Exists(pre, M) /\ B > Len(pre)
                => /\ ret = WriteDistant
                   /\ file = pre
                   /\ page_read(file, M, "none").buf = pre[M + 1]
           /\ ret = WriteDistant => file = pre /\ B > Len(pre)

C8_Witness ==
    /\ op.name = "meta_write" /\ pc = "idle"
    /\ ret = WriteDistant
    /\ Exists(pre, M) /\ B > Len(pre)

\* C9: after write failed on an out-of-range main page, backup holds what
\* main held before the call.
C9_BackupHoldsMain ==
    (op.name = "meta_write" /\ Returned /\ ret = ReadDistant)
        => PageAt(file, B) = PageAt(pre, M)

\* C9 amended: write fails on an out-of-range main page with the read
\* OutOfRange error, raised before anything is written: backup holds what
\* backup held before the call.
C9_BackupUntouched ==
    (op.name = "meta_write" /\ Returned /\ ret = ReadDistant)
        => /\ ~Exists(pre, M)
           /\ PageAt(file, B) = PageAt(pre, B)
           /\ Len(file) = Len(pre)

C9_Witness ==
    /\ op.name = "meta_write" /\ pc = "idle" /\ ret = ReadDistant
    /\ ~Exists(pre, M)
    /\ Exists(file, B)
    /\ file[B + 1] = pre[B + 1]

\* C10: write with a main page number that does not exist returns the read
\* OutOfRange error and leaves every page and the length of the file as
\* they were.
C10_MainMissing ==
    (op.name = "meta_write" /\ ReturnedNoIo /\ ~Exists(pre, M))
        => ret = ReadDistant /\ file = pre

\* C10 amended: the same when backup_no differs from main_no; when they are
\* equal the error is SelfCopy, and the file is as it was too.
C10_MainMissingDistinct ==
    (op.name = "meta_write" /\ ReturnedNoIo /\ ~Exists(pre, M))
        => /\ ret = (IF M = B THEN SelfCopy ELSE ReadDistant)
           /\ file = pre

C10_Witness ==
    /\ op.name = "meta_write" /\ pc = "idle" /\ ~Exists(pre, M)
    /\ M # B
    /\ ret = ReadDistant
    /\ Len(pre) > 0
    /\ file = pre

\* C11: init fails. When the backup write fails, main is untouched and the
\* file is unchanged; when the backup write succeeded and the main write
\* fails, backup is an all-zero payload followed by its CRC.
C11_InitFailureContract ==
    (op.name = "meta_init" /\ Returned /\ ret # Ok)
        => /\ (Len(ev) <= 1 /\ PageAt(file, B) # Stamp(ZeroPayload))
                => PageAt(file, M) = PageAt(pre, M) /\ file = pre
           /\ Len(ev) >= 2
                => Exists(file, B) /\ file[B + 1] = Stamp(ZeroPayload)

\* C11 amended: a backup write rejected before any byte is written leaves
\* the file unchanged; one that fails partway (or a failing flush) changes
\* no page other than backup; after the flush, backup is the all-zero page
\* with its CRC whatever becomes of the main write.
C11_InitFailureBackupOnly ==
    (op.name = "meta_init" /\ Returned /\ ret # Ok)
        => /\ ev = <<>> => file = pre
           /\ Len(ev) <= 1
                => \A i \in PageNos :
                     i # B => PageAt(file, i) = PageAt(pre, i)
           /\ Len(ev) >= 2
                => Exists(file, B) /\ file[B + 1] = Stamp(ZeroPayload)

C11_Witness ==
    /\ op.name = "meta_init" /\ pc = "idle" /\ ret = IoError
    /\ damage = NoDamage
    /\ ev = <<"backup">>
    /\ M # B
    /\ Exists(pre, M) /\ Exists(pre, B)
    /\ file[M + 1] = pre[M + 1]
    /\ file[B + 1] # pre[B + 1]
    /\ file[B + 1] # Stamp(ZeroPayload)

\* A read that directly follows an init on the same pair.
ReadAfterInit ==
    /\ pc = "idle"
    /\ op.name = "meta_read"
    /\ prev.op.name = "meta_init"

\* C12: when init returns Ok, main and backup both are the all-zero payload
\* followed by its CRC; a read that directly follows returns the all-zero
\* payload and leaves the file as it was.
C12_InitThenRead ==
    /\ (op.name = "meta_init" /\ Returned /\ ret = Ok)
        => /\ Exists(file, M) /\ Exists(file, B)
           /\ file[M + 1] = Append(ZeroPayload, crc(CRC_POLY, ZeroPayload))
           /\ file[B + 1] = file[M + 1]
    /\ (/\ ReadAfterInit
        /\ prev.ret = Ok
        /\ op.dmg = NoDamage
        /\ damage = NoDamage
        /\ ret \notin {IoError, Crashed})
        => /\ ret = Ok
           /\ out = ZeroPayload
           /\ Len(out) = SIZE - 1
           /\ file = pre

C12_Witness ==
    /\ ReadAfterInit /\ prev.ret = Ok /\ op.dmg = NoDamage
    /\ ret = Ok
    /\ out = ZeroPayload
    /\ op.arg # ZeroPayload
    /\ M # B
    /\ file[M + 1] = file[B + 1]
    /\ prev.op.p # ZeroPayload

\* C13: page::read reports the read OutOfRange error exactly when
\* page + 1 > page count (the count taken from the file at the call);
\* otherwise the buffer holds the SIZE bytes of that page; the file is never
\* changed by it.
C13_ReadBound ==
    (op.name = "page_read" /\ pc = "idle")
        => /\ file = pre
           /\ ret # IoError
                => /\ ret = ReadDistant <=> M + 1 > Len(pre)
                   /\ ret # ReadDistant
                        => /\ ret = Ok
                           /\ buf = pre[M + 1]
                           /\ Len(buf) = SIZE
                   /\ ret = ReadDistant => buf = op.arg

C13_Witness ==
    /\ op.name = "page_read" /\ pc = "idle" /\ ret = Ok
    /\ M >= 1
    /\ buf = pre[M + 1]
    /\ buf # op.arg
    /\ buf # pre[1]

PageReadAfterWrite ==
    /\ pc = "idle"
    /\ op.name = "page_read"
    /\ prev.op.name = "page_write"
    /\ op.main = prev.op.main

\* C15: page::write(page, b) with page <= page count, then page::read(page),
\* returns b; every other page that existed reads back what it held.
C15_WriteThenRead ==
    /\ (op.name = "page_write" /\ pc = "idle" /\ ret # IoError
            /\ M <= Len(pre))
        => /\ ret = Ok
           /\ page_read(file, M, "none") = [err |-> Ok, buf |-> op.arg]
           /\ \A i \in 0..(Len(pre) - 1) :
                i # M => page_read(file, i, "none")
                            = [err |-> Ok, buf |-> pre[i + 1]]
    /\ (PageReadAfterWrite /\ prev.ret = Ok /\ ret # IoError)
        => ret = Ok /\ buf = prev.op.arg

C15_Witness ==
    /\ PageReadAfterWrite /\ prev.ret = Ok /\ ret = Ok
    /\ buf = prev.op.arg
    /\ buf # op.arg
    /\ M >= 1
    /\ file[1] # buf

\* C16: page::copy checks in a fixed order. src = dst gives SelfCopy, also
\* when src does not exist; else a src that does not exist gives the read
\* OutOfRange error, also when dst is out of range; else dst > page count
\* gives the write OutOfRange error; every such failure leaves the file
\* unchanged, and so does every failure before the write.
C16_CopyOrder ==
    (op.name = "page_copy" /\ pc = "idle")
        => /\ M = B => ret = SelfCopy
           /\ ret # IoError
                => ret = IF M = B THEN SelfCopy
                         ELSE IF M >= Len(pre) THEN ReadDistant
                         ELSE IF B > Len(pre) THEN WriteDistant
                         ELSE Ok
           /\ ret \in {SelfCopy, ReadDistant, WriteDistant} => file = pre
           /\ ret = Ok => /\ file[B + 1] = pre[M + 1]
                          /\ file[M + 1] = pre[M + 1]

C16_Witness ==
    /\ op.name = "page_copy" /\ pc = "idle"
    /\ ret = ReadDistant
    /\ M # B
    /\ M >= Len(pre)
    /\ B > Len(pre)
    /\ Len(pre) >= 1
    /\ file = pre

\* The page number a step has written to, when it wrote (-1 when it did not
\* write): the page of page::write, the destination of page::copy, and in
\* the meta calls backup or main according to the file event recorded.
Written ==
    IF op'.name = "page_write" /\ nops' # nops
    THEN IF file' # file \/ ret' = Ok THEN op'.main ELSE -1
    ELSE IF op'.name = "page_copy" /\ nops' # nops
    THEN IF file' # file \/ ret' = Ok THEN op'.backup ELSE -1
    ELSE IF ev' # ev /\ Len(ev') > 0 /\ ev'[Len(ev')] # "flush"
    THEN IF ev'[Len(ev')] = "backup" THEN op.backup ELSE op.main
    ELSE -1

\* C17: from a file of whole pages, every step of the page and meta
\* operations whose I/O completes leaves a file of whole pages, does not
\* lower the page count, raises it by at most one, and writes page N only
\* when at least N pages exist.
C17_FileShape ==
    [][(tail = 0 /\ ret' # IoError)
        => /\ tail' = 0
           /\ Len(file') >= Len(file)
           /\ Len(file') <= Len(file) + 1
           /\ \A i \in 1..Len(file) :
                file'[i] # file[i] => Written = i - 1
           /\ Len(file') > Len(file) => Written = Len(file)
           /\ Written <= Len(file)]_vars

C17_Witness ==
    /\ op.name = "meta_write" /\ pc = "idle" /\ ret = Ok
    /\ tail = 0
    /\ Len(file) = Len(pre) + 1
    /\ B = Len(pre)
    /\ prev.op.name = "page_write" /\ prev.ret = Ok
    /\ Len(pre) = 2

\* A verify_checksum that directly follows a write_blocks.
VerifyAfterWrite ==
    /\ op.name = "verify_checksum"
    /\ prev.op.name = "write_blocks"

\* C18: after write_blocks, for any earlier page contents and any blocks,
\* byte 0 is the CRC (polynomial 0x07) of bytes 1.. of the resulting page,
\* and verify_checksum returns Ok.
C18_WriteChecksumValid ==
    /\ (op.name = "write_blocks" /\ damage = NoDamage)
        => /\ buf[1] = crc(slot_CRC_POLY, SubSeq(buf, 2, SLOT_SIZE))
           /\ verify_checksum(buf) = Ok
    /\ (VerifyAfterWrite /\ op.dmg = NoDamage) => ret = Ok

C18_Witness ==
    /\ VerifyAfterWrite /\ op.dmg = NoDamage
    /\ ret = Ok
    /\ buf[1] # 0
    /\ prev.op.arg[1] # BlockDefault
    /\ buf[SLOT_SIZE] # 0

\* C19: after write_blocks, one flipped bit in bytes 1.. makes
\* verify_checksum return BadChecksum; verify_checksum leaves the page as
\* it found it.
C19_SingleBitDetected ==
    /\ (VerifyAfterWrite /\ op.dmg.kind = "flip" /\ op.dmg.page >= 1)
        => ret = BadChecksum
    /\ (op.name = "verify_checksum" /\ damage = NoDamage) => buf = pre

C19_Witness ==
    /\ VerifyAfterWrite
    /\ op.dmg = [kind |-> "flip", page |-> SLOT_SIZE - 1]
    /\ ret = BadChecksum
    /\ buf = pre
    /\ prev.op.arg[1] # BlockDefault

\* The page with every byte outside the two u16 of block index set to 0.
OnlyBlock(page, index) ==
    [k \in 1..Len(page) |->
        IF k - 1 >= 3 + 4 * index /\ k - 1 < 7 + 4 * index
        THEN page[k] ELSE 0]

\* C20: read_blocks gives, for each index 0..4, the size held little-endian
\* in bytes 3 + 4 * index, 4 + 4 * index and the offset held in the next
\* two; no other byte matters, the checksum is not looked at, and an
\* all-zero page gives five blocks of size 0 and offset 0.
C20_ReadBlocksLayout ==
    (op.name = "read_blocks" /\ damage = NoDamage)
        => /\ ret = Ok
           /\ buf = pre
           /\ Len(out) = 5
           /\ \A index \in 0..4 :
                /\ out[index + 1].size
                     = buf[3 + 4 * index + 1] + 256 * buf[4 + 4 * index + 1]
                /\ out[index + 1].offset
                     = buf[5 + 4 * index + 1] + 256 * buf[6 + 4 * index + 1]
                /\ out[index + 1]
                     = read_blocks(OnlyBlock(buf, index))[index + 1]
           /\ buf = Fill(0, SLOT_SIZE)
                => \A index \in 0..4 : out[index + 1] = [offset |-> 0, size |-> 0]

C20_Witness ==
    /\ op.name = "read_blocks"
    /\ verify_checksum(buf) = BadChecksum
    /\ out[1].size # out[1].offset
    /\ out[1].size > 255 /\ out[1].size % 256 # out[1].size \div 256
    /\ out[5] # out[1]

(***************************************************************************)
(* crc                                                                     *)
(***************************************************************************)
\* A crc call that has returned.
CrcReturned == pc = "idle" /\ op.name = "crc"

AllZero(n) == \A i \in 1..Len(n) : n[i] = 0

\* C21: crc(poly, data) is 0 for every polynomial whenever data is empty or
\* holds only zero bytes; so write_blocks of five default blocks leaves an
\* all-zero page all zero, and the page meta::init stamps is all zero.
C21_ZeroData ==
    /\ (CrcReturned /\ AllZero(buf)) => (ret = 0 /\ crc(op.arg, buf) = 0)
    /\ \A poly \in CrcPolys : crc(poly, <<>>) = 0
    /\ write_blocks(Fill(0, SLOT_SIZE), [i \in 1..NBlocks |-> BlockDefault])
           = Fill(0, SLOT_SIZE)
    /\ Stamp(ZeroPayload) = Fill(0, SIZE)

C21_Witness ==
    /\ CrcReturned
    /\ op.arg = 255
    /\ buf = <<0, 0>>
    /\ ret = 0

C21_WitnessEmpty ==
    /\ CrcReturned
    /\ op.arg = 255
    /\ buf = <<>>
    /\ ret = 0

\* C22: crc gives the documented vectors: 0x23 for polynomial 0x07 over
\* AB CD EF, and 0xB0 for polynomial 0x2F over AB CD EF AA BB CC.
C22_KnownVectors ==
    /\ (CrcReturned /\ op.arg = 7 /\ buf = <<171, 205, 239>>)
           => (ret = 35 /\ crc(7, buf) = 35)
    /\ (CrcReturned /\ op.arg = 47 /\ buf = <<171, 205, 239, 170, 187, 204>>)
           => (ret = 176 /\ crc(47, buf) = 176)

C22_Witness ==
    /\ CrcReturned
    /\ op.arg = 47
    /\ buf = <<171, 205, 239, 170, 187, 204>>
    /\ ret = 176

\* Reference division, on sequences of bits with the highest degree first.
\* The bits of the bytes of n, each byte from its top bit down.
Bits(n) ==
    [i \in 1..(8 * Len(n)) |->
        (n[((i - 1) \div 8) + 1] \div Pow2(7 - ((i - 1) % 8))) % 2]

\* data * x^8: the bits of n followed by eight zero bits.
Padded(n) == Bits(n) \o [i \in 1..8 |-> 0]

\* x^8 + poly: nine coefficients.
Generator(poly) == <<1>> \o Bits(<<poly>>)

\* The dividend after the first k steps of long division by g: at step i,
\* when coefficient i is set, g is subtracted (mod 2) at positions i..i+8.
RECURSIVE Divide(_, _, _)
Divide(d, g, k) ==
    IF k = 0 THEN d
    ELSE LET q == Divide(d, g, k - 1)
         IN  IF q[k] = 0 THEN q
             ELSE SubSeq(q, 1, k - 1)
                      \o [i \in 1..9 |-> (q[k + i - 1] + g[i]) % 2]
                      \o SubSeq(q, k + 9, Len(q))

\* The byte made of bits[from .. from + 7].
RECURSIVE ByteAt(_, _, _)
ByteAt(bits, from, len) ==
    IF len = 0 THEN 0
    ELSE 2 * ByteAt(bits, from, len - 1) + bits[from + len - 1]

\* The remainder of data * x^8 divided by x^8 + poly.
Remainder(poly, n) ==
    IF Len(n) = 0 THEN 0
    ELSE ByteAt(Divide(Padded(n), Generator(poly), 8 * Len(n)),
                8 * Len(n) + 1, 8)

\* C23: the register of crc carries out MSB-first polynomial division:
\* Register::shift returns a bit 8 * n.len() times and then None; the k-th
\* shift returns the top bit of the register, which is coefficient k of the
\* partly divided data * x^8, and shifts in the next unread bit of the input
\* (bytes 1.., top bit first, then eight zeros); and the value returned is
\* the remainder of data * x^8 divided by x^8 + poly.
C23_RegisterIsDivision ==
    LET k == Len(ev)
        g == Generator(op.arg)
    IN  /\ pc = "crc_loop" =>
            /\ k <= 8 * Len(buf)
            /\ (out.idx > Len(buf)) <=> (k = 8 * Len(buf))
            /\ out.bit = 7 - (k % 8)
            /\ out.idx = 1 + (k \div 8)
            /\ Len(buf) > 0 =>
                   out.current = ByteAt(Divide(Padded(buf), g, k), k + 1, 8)
            /\ \A j \in 1..k : ev[j] = Divide(Padded(buf), g, j - 1)[j]
        /\ CrcReturned =>
            /\ k = 8 * Len(buf)
            /\ ret = Remainder(op.arg, buf)
            /\ crc(op.arg, buf) = Remainder(op.arg, buf)

C23_Witness ==
    /\ CrcReturned
    /\ op.arg = 47
    /\ buf = <<171, 205, 239, 170, 187, 204>>
    /\ Len(ev) = 48
    /\ ret = Remainder(47, buf)
    /\ ret # 0

(***************************************************************************)
(* meta::read                                                              *)
(***************************************************************************)
\* A meta::read call that has returned, with the medium not damaged since.
ReadReturned == op.name = "meta_read" /\ Returned

\* The call found main stored and its CRC not matching.
ReadMismatch == Exists(pre, M) /\ Mismatch(pre[M + 1])

\* A step of a running meta::read (a crash is not one).
ReadStep ==
    /\ pc \in {"r_main", "r_backup", "r_heal"}
    /\ ret' # Crashed

\* C24: after every successful read, main's last byte is the CRC of main's
\* payload and the payload returned is main's payload; after a mismatch main
\* holds backup's payload with a fresh CRC, whether or not backup's own CRC
\* matched.
C24_ReadPostcondition ==
    (ReadReturned /\ ret = Ok)
        => /\ Exists(file, M)
           /\ file[M + 1][SIZE] = crc(CRC_POLY, SubSeq(file[M + 1], 1, SIZE - 1))
           /\ out = SubSeq(file[M + 1], 1, SIZE - 1)
           /\ ReadMismatch =>
                /\ Exists(pre, B)
                /\ out = SubSeq(pre[B + 1], 1, SIZE - 1)

C24_Witness ==
    /\ ReadReturned /\ ret = Ok
    /\ ReadMismatch
    /\ ~CrcValid(pre[B + 1])
    /\ M # B
    /\ file[M + 1] # pre[B + 1]
    /\ out = SubSeq(pre[B + 1], 1, SIZE - 1)

\* C25: while main's CRC matches no step of read changes the file; and no
\* step of read changes the backup page, a page other than main, or the
\* length of the file.
C25_ReadFrame ==
    [][ReadStep =>
        /\ (Exists(pre, M) /\ ~Mismatch(pre[M + 1])) => file' = file
        /\ Len(file') = Len(file)
        /\ tail' = tail
        /\ \A i \in 0..Len(file) : i # M => PageAt(file', i) = PageAt(file, i)
        /\ PageAt(file', B) = PageAt(file, B)]_vars

\* C25 amended: the same, where the backup page is kept when it is not the
\* main page as well.
C25_ReadFrameDistinct ==
    [][ReadStep =>
        /\ (Exists(pre, M) /\ ~Mismatch(pre[M + 1])) => file' = file
        /\ Len(file') = Len(file)
        /\ tail' = tail
        /\ \A i \in 0..Len(file) : i # M => PageAt(file', i) = PageAt(file, i)
        /\ B # M => PageAt(file', B) = PageAt(file, B)]_vars

C25_Witness ==
    /\ ReadReturned
    /\ ReadMismatch
    /\ M # B
    /\ ev = <<"heal">>
    /\ file[M + 1] # pre[M + 1]
    /\ file[B + 1] = pre[B + 1]
    /\ Len(file) = Len(pre)

\* The read met main and backup as one page whose CRC did not match, and
\* rewrote it.
C25_WitnessSamePage ==
    /\ ReadReturned
    /\ ReadMismatch
    /\ M = B
    /\ file[B + 1] # pre[B + 1]

\* C26: a read fails only where main cannot be read, or after a mismatch
\* the backup cannot be read or the repair write fails; it then returns the
\* error of that step, does nothing further, and the caller's buffer holds
\* what it held before the call.
C26_ReadErrors ==
    ReadReturned =>
        /\ ret \in {Ok, ReadDistant, IoError}
        /\ ~Exists(pre, M) => (ret \in {ReadDistant, IoError} /\ file = pre)
        /\ (ReadMismatch /\ ~Exists(pre, B))
               => (ret \in {ReadDistant, IoError} /\ file = pre)
        /\ ret = ReadDistant
               => (~Exists(pre, M) \/ (ReadMismatch /\ ~Exists(pre, B)))
        /\ (Exists(pre, M) /\ (ReadMismatch => Exists(pre, B)) /\ ret # IoError)
               => ret = Ok
        /\ ret # Ok => out = op.arg
        /\ (ret # Ok /\ ev = <<>>) => file = pre
        /\ (ret # Ok /\ ev # <<>>)
               => (ret = IoError /\ ReadMismatch /\ Exists(pre, B))

C26_Witness ==
    /\ ReadReturned
    /\ ReadMismatch
    /\ ret = IoError
    /\ ev = <<"heal">>
    /\ out = op.arg
    /\ out # SubSeq(pre[B + 1], 1, SIZE - 1)

C26_WitnessBackup ==
    /\ ReadReturned
    /\ ReadMismatch
    /\ ~Exists(pre, B)
    /\ ret = ReadDistant
    /\ out = op.arg

(***************************************************************************)
(* page::read and the width of page numbers                                *)
(***************************************************************************)
\* C27: page::read of any u64 page number at or beyond the page count, the
\* largest u64 included, returns the read OutOfRange error; it neither
\* passes the bound check nor panics.
C27_ReadBoundAllU64 ==
    (op.name = "page_read" /\ pc = "idle" /\ op.main >= Len(pre))
        => (ret = ReadDistant /\ "seek" \notin {ev[i] : i \in 1..Len(ev)})

\* The same for every page number but the largest u64, which holds.
C27_ReadBoundBelowMaxU64 ==
    (op.name = "page_read" /\ pc = "idle" /\ op.main >= Len(pre)
        /\ op.main < U64_WRAP - 1)
        => (ret = ReadDistant /\ "seek" \notin {ev[i] : i \in 1..Len(ev)})

\* page::read of the largest u64 in a build without overflow checks: the
\* bound check is passed and the seek fails.
C27_WitnessWrapped ==
    /\ op.name = "page_read" /\ pc = "idle"
    /\ op.main = U64_WRAP - 1
    /\ ev = <<"wrapping", "seek">>
    /\ ret = IoError

\* ... and in a build with overflow checks: the addition panics.
C27_WitnessPanic ==
    /\ op.name = "page_read" /\ pc = "idle"
    /\ op.main = U64_WRAP - 1
    /\ ev = <<"checked">>
    /\ ret = Panicked

(***************************************************************************)
(* slot::write_blocks: frame and round trip                                *)
(***************************************************************************)
\* write_blocks has just been applied to the page buffer.
JustWritten == op.name = "write_blocks" /\ damage = NoDamage

\* C28: write_blocks changes byte 0 and bytes 3..22 only: bytes 1 and 2 and
\* the bytes from 23 on hold what they held before the call.
C28_WriteBlocksFrame ==
    JustWritten =>
        /\ Len(buf) = Len(pre)
        /\ buf[2] = pre[2]
        /\ buf[3] = pre[3]
        /\ \A k \in 24..SLOT_SIZE : buf[k] = pre[k]

C28_Witness ==
    /\ JustWritten
    /\ pre[2] # 0 /\ pre[2] # pre[3] /\ pre[SLOT_SIZE] # 0
    /\ buf[1] # pre[1]
    /\ \A k \in 4..23 : buf[k] # pre[k]
    /\ buf[2] = pre[2] /\ buf[3] = pre[3] /\ buf[SLOT_SIZE] = pre[SLOT_SIZE]

\* A read_blocks that directly follows a write_blocks.
ReadBlocksAfterWrite ==
    /\ op.name = "read_blocks"
    /\ prev.op.name = "write_blocks"
    /\ op.dmg = NoDamage

\* C29: read_blocks of the page write_blocks(page, s) produced returns s,
\* sizes as sizes and offsets as offsets, for every field value of a u16;
\* and write_blocks(page, s) applied once more leaves every byte as it is.
C29_SlotRoundTrip ==
    /\ ReadBlocksAfterWrite => out = prev.op.arg
    /\ JustWritten =>
        /\ read_blocks(buf) = op.arg
        /\ write_blocks(buf, op.arg) = buf

C29_Witness ==
    /\ ReadBlocksAfterWrite
    /\ out = prev.op.arg
    /\ out[1] = [offset |-> 1234, size |-> 1034]
    /\ out[3] = [offset |-> 65535, size |-> 65535]
    /\ pre[SLOT_SIZE] # 0
    /\ write_blocks(buf, out) = buf

(***************************************************************************)
(* meta::init: which page numbers it accepts                               *)
(***************************************************************************)
\* A meta::init call that has returned without a low-level I/O failure.
InitReturned == op.name = "meta_init" /\ ReturnedNoIo

\* C30: on a file of n pages, init(main_no, backup_no) that meets no I/O
\* failure succeeds exactly when backup_no <= n and
\* main_no <= n + (1 if backup_no = n, else 0), and fails with the write
\* OutOfRange error otherwise; on an empty file init(1, 0) succeeds and
\* leaves two pages, init(0, 1) fails with OutOfRange and leaves the file
\* empty.
C30_InitAccepts ==
    LET n == Len(pre)
        main_no == pair[1]
        backup_no == pair[2]
    IN  InitReturned =>
            /\ ret \in {Ok, WriteDistant}
            /\ ret = Ok <=>
                  /\ backup_no <= n
                  /\ main_no <= n + (IF backup_no = n THEN 1 ELSE 0)
            /\ (n = 0 /\ main_no = 1 /\ backup_no = 0)
                   => (ret = Ok /\ Len(file) = 2 /\ tail = 0)
            /\ (n = 0 /\ main_no = 0 /\ backup_no = 1)
                   => (ret = WriteDistant /\ file = <<>> /\ ev = <<>>)

C30_Witness ==
    /\ InitReturned
    /\ pre = <<>>
    /\ pair = <<1, 0>>
    /\ ret = Ok
    /\ Len(file) = 2

C30_WitnessRefused ==
    /\ InitReturned
    /\ pre = <<>>
    /\ pair = <<0, 1>>
    /\ ret = WriteDistant
    /\ file = <<>>

\* init on a file of n = 1 pages with backup_no = n = 1 and main_no = n + 1.
C30_WitnessAppendsBoth ==
    /\ InitReturned
    /\ Len(pre) = 1
    /\ pair = <<2, 1>>
    /\ ret = Ok
    /\ Len(file) = 3

====
